---- MODULE Spec2Model ----
(***************************************************************************)
(* Triple Triad (jyamaiken/triple-triad-app): the useGame hook and the App *)
(* component of src/src/App.tsx (lines 1-841) as a state machine.          *)
(*                                                                         *)
(* State     = the useState cells of useGame.                              *)
(* Actions   = the event handlers, timers and effects of useGame / App.    *)
(* placeCard = a pure operator over (board, hand, turn, settings).         *)
(***************************************************************************)
EXTENDS Integers, Sequences, FiniteSets, TLC

VARIABLES gameState, round, matchResults, p1Hand, p2Hand, board, turn,
          selectedCardIdx, tossWinner, selectingPlayer, settings, lastCall

\* lastCall is a history variable: the record of the placeCard call made in the
\* last step (Call), NoCall when the step made none.
vars == <<gameState, round, matchResults, p1Hand, p2Hand, board, turn,
          selectedCardIdx, tossWinner, selectingPlayer, settings, lastCall>>

(***************************************************************************)
(* Bounds of the exploration                                               *)
(***************************************************************************)
\* In the first round of a series the first MaxFreeMoves placements are
\* explored with a choice of tile and card, and the shuffle of generateDeck
\* for MaxDeckShift + 1 outcomes.  Every other human placement puts the first
\* card of the hand on the first empty tile, every other deck is the first
\* one; the CPU's choice among its best moves is explored in every round.
\* In CPU mode the human's selection of one of P2's cards is explored in the
\* first round, during the first MaxFreeMoves + 1 placements.
MaxFreeMoves == 1
MaxDeckShift == 1
\* The budgeted generator of utils/deckGenerator.ts retries up to MAX_ATTEMPTS
\* times (2000 in the source); the exploration runs it with MaxAttempts
\* attempts and, at every random pick, with the first MaxPicks candidates.
MaxAttempts == 2
MaxPicks == 2

(***************************************************************************)
(* Types and constants                                                     *)
(***************************************************************************)
Players == {"P1", "P2"}
NoCard == 0
NoElement == "none"
NoIdx == -1
BoardSize == 9
HandSize == 5
Tiles == 0 .. (BoardSize - 1)

\* The element tokens of ELEMENTS that the explored catalogue and boards use.
ELEMENTS == <<"Fire", "Ice">>

\* The card catalogue (data/cards.json): id, level, stats (Up, Left, Right,
\* Down), attr.
\* A ten-card sample with repeated side values, so that equal facing values and
\* equal sums (SAME, PLUS) occur between the two decks.
CARD_DATA ==
  << [id |-> 1,  level |-> 4,  stats |-> <<2, 3, 3, 2>>,  attr |-> NoElement],
     [id |-> 2,  level |-> 5,  stats |-> <<3, 2, 4, 3>>,  attr |-> "Fire"],
     [id |-> 3,  level |-> 6,  stats |-> <<3, 3, 2, 4>>,  attr |-> NoElement],
     [id |-> 4,  level |-> 6,  stats |-> <<2, 4, 3, 5>>,  attr |-> "Ice"],
     [id |-> 5,  level |-> 10, stats |-> <<10, 1, 6, 2>>, attr |-> "Fire"],
     [id |-> 6,  level |-> 5,  stats |-> <<3, 3, 2, 4>>,  attr |-> NoElement],
     [id |-> 7,  level |-> 6,  stats |-> <<4, 2, 3, 3>>,  attr |-> "Ice"],
     [id |-> 8,  level |-> 6,  stats |-> <<2, 5, 4, 1>>,  attr |-> NoElement],
     [id |-> 9,  level |-> 8,  stats |-> <<6, 2, 1, 10>>, attr |-> "Fire"],
     [id |-> 10, level |-> 4,  stats |-> <<3, 4, 5, 2>>,  attr |-> NoElement] >>

CardIds == {CARD_DATA[i].id : i \in 1 .. Len(CARD_DATA)}
CardOf(id) == CARD_DATA[CHOOSE i \in 1 .. Len(CARD_DATA) : CARD_DATA[i].id = id]

Other(p) == IF p = "P1" THEN "P2" ELSE "P1"

Max(a, b) == IF a > b THEN a ELSE b
Min(a, b) == IF a < b THEN a ELSE b

EmptyTile(e) == [card |-> NoCard, owner |-> "none", modifiedStats |-> <<>>, element |-> e]

(***************************************************************************)
(* calculateStats (App.tsx 72-76)                                          *)
(***************************************************************************)
\* calculateStats without the limits 1 and 10
calculateStatsUnclamped(card, element) ==
  IF element = NoElement THEN card.stats
  ELSE LET modifier == IF card.attr = element THEN 1 ELSE -1
       IN  [k \in 1 .. 4 |-> card.stats[k] + modifier]

calculateStats(card, element) ==
  IF element = NoElement THEN card.stats
  ELSE LET modifier == IF card.attr = element THEN 1 ELSE -1
       IN  [k \in 1 .. 4 |-> Max(1, Min(10, card.stats[k] + modifier))]

(***************************************************************************)
(* placeCard (App.tsx 484-597): the rule logic on nextBoard                *)
(***************************************************************************)
\* getNeighbors with the Left and Right neighbours taken across the row ends
getNeighborsAcrossRows(i) ==
  << [pos |-> i - 3, side |-> 0, oppSide |-> 3, active |-> i >= 3],
     [pos |-> i - 1, side |-> 1, oppSide |-> 2, active |-> i >= 1],
     [pos |-> i + 1, side |-> 2, oppSide |-> 1, active |-> i <= 7],
     [pos |-> i + 3, side |-> 3, oppSide |-> 0, active |-> i < 6] >>

\* getNeighbors: Up, Left, Right, Down, with the side of the placed card
\* and the facing side of the neighbour (0-based as in the source).
getNeighbors(i) ==
  << [pos |-> i - 3, side |-> 0, oppSide |-> 3, active |-> i >= 3],
     [pos |-> i - 1, side |-> 1, oppSide |-> 2, active |-> i % 3 # 0],
     [pos |-> i + 1, side |-> 2, oppSide |-> 1, active |-> i % 3 # 2],
     [pos |-> i + 3, side |-> 3, oppSide |-> 0, active |-> i < 6] >>

\* The active neighbours that hold a card, in scan order.
OccupiedNeighbors(b, i) ==
  SelectSeq(getNeighbors(i), LAMBDA n : n.active /\ b[n.pos].card # NoCard)

\* nextBoard[pos].card.owner = owner
\* A capture that rebuilds the card from the catalogue and loses the stats
\* stored at placement
SetOwnerResetStats(b, pos, owner) ==
  [b EXCEPT ![pos].owner = owner, ![pos].modifiedStats = CardOf(b[pos].card).stats]

\* nextBoard[pos].card.owner = owner
SetOwner(b, pos, owner) == [b EXCEPT ![pos].owner = owner]

\* The body shared by sameMatches.forEach and indices.forEach: capture the
\* card when it is not the mover's, and push the position on the combo queue.
RECURSIVE SeedEach(_, _, _)
SeedEach(ps, rs, owner) ==
  IF ps = <<>> THEN rs
  ELSE LET pos  == Head(ps)
           mine == rs.board[pos].owner = owner
       IN  SeedEach(Tail(ps),
                    [board   |-> IF mine THEN rs.board ELSE SetOwner(rs.board, pos, owner),
                     flipped |-> IF mine THEN rs.flipped ELSE Append(rs.flipped, pos),
                     queue   |-> Append(rs.queue, pos)],
                    owner)

MyVal(stats, n) == stats[n.side + 1]
OppVal(b, n) == b[n.pos].modifiedStats[n.oppSide + 1]

\* sameMatches: the neighbours whose facing value equals the placed card's.
SameMatches(b, idx, stats, st) ==
  IF st.sameEnabled
  THEN LET m == SelectSeq(OccupiedNeighbors(b, idx),
                          LAMBDA n : MyVal(stats, n) = OppVal(b, n))
       IN  [k \in 1 .. Len(m) |-> m[k].pos]
  ELSE <<>>

\* plusSums[sum]: the neighbours with that sum, in scan order.
PlusGroup(b, idx, stats, sum) ==
  LET m == SelectSeq(OccupiedNeighbors(b, idx),
                     LAMBDA n : MyVal(stats, n) + OppVal(b, n) = sum)
  IN  [k \in 1 .. Len(m) |-> m[k].pos]

\* SAME triggering on a single matched neighbour
ApplySameOnOne(rs, idx, stats, owner, st) ==
  LET sameMatches == SameMatches(rs.board, idx, stats, st)
  IN  IF st.sameEnabled /\ Len(sameMatches) >= 1
      THEN SeedEach(sameMatches, rs, owner)
      ELSE rs

ApplySame(rs, idx, stats, owner, st) ==
  LET sameMatches == SameMatches(rs.board, idx, stats, st)
  IN  IF st.sameEnabled /\ Len(sameMatches) >= 2
      THEN SeedEach(sameMatches, rs, owner)
      ELSE rs

\* PLUS capturing the group of every sum, shared or not
RECURSIVE ApplyPlusFromEverySum(_, _, _, _, _, _)
ApplyPlusFromEverySum(sum, b0, rs, idx, stats, owner) ==
  IF sum > 20 THEN rs
  ELSE LET indices == PlusGroup(b0, idx, stats, sum)
       IN  ApplyPlusFromEverySum(sum + 1, b0,
                                 IF Len(indices) >= 1 THEN SeedEach(indices, rs, owner) ELSE rs,
                                 idx, stats, owner)

\* Object.values(plusSums) visits the integer keys in ascending order.
RECURSIVE ApplyPlusFrom(_, _, _, _, _, _)
ApplyPlusFrom(sum, b0, rs, idx, stats, owner) ==
  IF sum > 20 THEN rs
  ELSE LET indices == PlusGroup(b0, idx, stats, sum)
       IN  ApplyPlusFrom(sum + 1, b0,
                         IF Len(indices) >= 2 THEN SeedEach(indices, rs, owner) ELSE rs,
                         idx, stats, owner)

ApplyPlus(rs, idx, stats, owner, st) ==
  IF st.plusEnabled THEN ApplyPlusFrom(2, rs.board, rs, idx, stats, owner) ELSE rs

\* The basic loop without the test of the neighbour's owner
RECURSIVE BasicEachAnyOwner(_, _, _, _)
BasicEachAnyOwner(ns, rs, stats, owner) ==
  IF ns = <<>> THEN rs
  ELSE LET n   == Head(ns)
           hit == MyVal(stats, n) > OppVal(rs.board, n)
       IN  BasicEachAnyOwner(Tail(ns),
                             IF hit
                             THEN [rs EXCEPT !.board = SetOwner(rs.board, n.pos, owner),
                                             !.flipped = Append(rs.flipped, n.pos)]
                             ELSE rs,
                             stats, owner)

\* The basic loop capturing for the opponent of the mover
RECURSIVE BasicEachForOpponent(_, _, _, _)
BasicEachForOpponent(ns, rs, stats, owner) ==
  IF ns = <<>> THEN rs
  ELSE LET n   == Head(ns)
           hit == /\ rs.board[n.pos].owner # Other(owner)
                  /\ MyVal(stats, n) > OppVal(rs.board, n)
       IN  BasicEachForOpponent(Tail(ns),
                                IF hit
                                THEN [rs EXCEPT !.board = SetOwner(rs.board, n.pos, Other(owner)),
                                                !.flipped = Append(rs.flipped, n.pos)]
                                ELSE rs,
                                stats, owner)

\* The basic loop putting the tiles it captures on the combo queue
RECURSIVE BasicEachQueues(_, _, _, _)
BasicEachQueues(ns, rs, stats, owner) ==
  IF ns = <<>> THEN rs
  ELSE LET n   == Head(ns)
           hit == /\ rs.board[n.pos].owner # owner
                  /\ MyVal(stats, n) > OppVal(rs.board, n)
       IN  BasicEachQueues(Tail(ns),
                           IF hit
                           THEN [board   |-> SetOwner(rs.board, n.pos, owner),
                                 flipped |-> Append(rs.flipped, n.pos),
                                 queue   |-> Append(rs.queue, n.pos)]
                           ELSE rs,
                           stats, owner)

\* Basic rule: every neighbour still owned by the opponent with a strictly
\* lower facing value.
RECURSIVE BasicEach(_, _, _, _)
BasicEach(ns, rs, stats, owner) ==
  IF ns = <<>> THEN rs
  ELSE LET n   == Head(ns)
           hit == /\ rs.board[n.pos].owner # owner
                  /\ MyVal(stats, n) > OppVal(rs.board, n)
       IN  BasicEach(Tail(ns),
                     IF hit
                     THEN [rs EXCEPT !.board = SetOwner(rs.board, n.pos, owner),
                                     !.flipped = Append(rs.flipped, n.pos)]
                     ELSE rs,
                     stats, owner)

ApplyBasic(rs, idx, stats, owner) ==
  BasicEach(OccupiedNeighbors(rs.board, idx), rs, stats, owner)

InSeq(x, s) == \E k \in 1 .. Len(s) : s[k] = x

\* The loop body queueing every captured tile twice
RECURSIVE ComboEachPushTwice(_, _, _, _)
ComboEachPushTwice(ns, rs, cStats, owner) ==
  IF ns = <<>> THEN rs
  ELSE LET cn  == Head(ns)
           hit == /\ rs.board[cn.pos].owner # owner
                  /\ cStats[cn.side + 1] > OppVal(rs.board, cn)
       IN  ComboEachPushTwice(Tail(ns),
                              IF hit
                              THEN [board   |-> SetOwner(rs.board, cn.pos, owner),
                                    flipped |-> Append(rs.flipped, cn.pos),
                                    queue   |-> rs.queue \o <<cn.pos, cn.pos>>]
                              ELSE rs,
                              cStats, owner)

\* The loop body stopping at the first neighbour it captures
RECURSIVE ComboEachFirstHit(_, _, _, _)
ComboEachFirstHit(ns, rs, cStats, owner) ==
  IF ns = <<>> THEN rs
  ELSE LET cn  == Head(ns)
           hit == /\ rs.board[cn.pos].owner # owner
                  /\ cStats[cn.side + 1] > OppVal(rs.board, cn)
           new == ~InSeq(cn.pos, rs.flipped)
       IN  IF hit
           THEN [board   |-> SetOwner(rs.board, cn.pos, owner),
                 flipped |-> IF new THEN Append(rs.flipped, cn.pos) ELSE rs.flipped,
                 queue   |-> IF new THEN Append(rs.queue, cn.pos) ELSE rs.queue]
           ELSE ComboEachFirstHit(Tail(ns), rs, cStats, owner)

\* Combo: getNeighbors(cIdx).forEach for one dequeued card.
RECURSIVE ComboEach(_, _, _, _)
ComboEach(ns, rs, cStats, owner) ==
  IF ns = <<>> THEN rs
  ELSE LET cn  == Head(ns)
           hit == /\ rs.board[cn.pos].owner # owner
                  /\ cStats[cn.side + 1] > OppVal(rs.board, cn)
           new == ~InSeq(cn.pos, rs.flipped)
       IN  ComboEach(Tail(ns),
                     IF hit
                     THEN [board   |-> SetOwner(rs.board, cn.pos, owner),
                           flipped |-> IF new THEN Append(rs.flipped, cn.pos) ELSE rs.flipped,
                           queue   |-> IF new THEN Append(rs.queue, cn.pos) ELSE rs.queue]
                     ELSE rs,
                     cStats, owner)

\* One iteration of the combo loop: const cIdx = comboQueue.shift(); ...
ComboStep(rs, owner) ==
  LET cIdx == Head(rs.queue)
      rest == [rs EXCEPT !.queue = Tail(rs.queue)]
  IN  ComboEach(OccupiedNeighbors(rest.board, cIdx), rest,
                rest.board[cIdx].modifiedStats, owner)

\* A combo loop that ends after its first iteration
ComboLoopOnce(rs, owner) ==
  IF rs.queue = <<>> THEN rs
  ELSE [ComboStep(rs, owner) EXCEPT !.queue = <<>>]

\* while (comboQueue.length > 0) { const cIdx = comboQueue.shift(); ... }
RECURSIVE ComboLoop(_, _)
ComboLoop(rs, owner) ==
  IF rs.queue = <<>> THEN rs
  ELSE ComboLoop(ComboStep(rs, owner), owner)

\* The values cIdx takes in the iterations of the combo loop, in order.
RECURSIVE ComboVisits(_, _)
ComboVisits(rs, owner) ==
  IF rs.queue = <<>> THEN <<>>
  ELSE <<Head(rs.queue)>> \o ComboVisits(ComboStep(rs, owner), owner)

\* nextBoard[idx].card = { ...card, owner, modifiedStats: stats }
PutCard(b, idx, card, owner) ==
  [b EXCEPT ![idx] = [card |-> card.id, owner |-> owner,
                      modifiedStats |-> calculateStats(card, b[idx].element),
                      element |-> b[idx].element]]

\* nextBoard, flippedIndices and comboQueue when the combo loop is reached.
PreCascade(b, idx, card, owner, st) ==
  LET stats == calculateStats(card, b[idx].element)
      rs0   == [board |-> PutCard(b, idx, card, owner), flipped |-> <<>>, queue |-> <<>>]
      rs1   == ApplySame(rs0, idx, stats, owner, st)
      rs2   == ApplyPlus(rs1, idx, stats, owner, st)
  IN  ApplyBasic(rs2, idx, stats, owner)

\* The board that placeCard hands to setBoard.
PlaceOnBoard(b, idx, card, owner, st) ==
  ComboLoop(PreCascade(b, idx, card, owner, st), owner).board

(***************************************************************************)
(* CPU move selection (App.tsx 79-133)                                     *)
(***************************************************************************)
RECURSIVE SumSeq(_)
SumSeq(s) == IF s = <<>> THEN 0 ELSE Head(s) + SumSeq(Tail(s))

\* flips of evaluateMove: the captures it has counted when it scores them.
evaluateMoveFlips(boardIdx, card, b, owner, st) ==
  LET stats == calculateStats(card, b[boardIdx].element)
      nd    == OccupiedNeighbors(b, boardIdx)
      theirs(n) == b[n.pos].owner # owner
      sames == SelectSeq(nd, LAMBDA n : MyVal(stats, n) = OppVal(b, n))
      sameOn == st.sameEnabled /\ Len(sames) >= 2
      sameFlips == IF sameOn THEN Len(SelectSeq(sames, theirs)) ELSE 0
      sumOf(n) == MyVal(stats, n) + OppVal(b, n)
      plusSums == {v \in 2 .. 20 : Len(SelectSeq(nd, LAMBDA n : sumOf(n) = v)) >= 2}
      plusOn == st.plusEnabled /\ plusSums # {}
      plusFlips == IF plusOn
                   THEN Len(SelectSeq(nd, LAMBDA n : sumOf(n) \in plusSums /\ theirs(n)))
                   ELSE 0
      basicFlips == Len(SelectSeq(nd, LAMBDA n : MyVal(stats, n) > OppVal(b, n) /\ theirs(n)))
  IN  sameFlips + plusFlips + basicFlips

\* evaluateMove, scaled by 2 so that (sum of stats / 4) * 2 stays an integer.
evaluateMoveX2(boardIdx, card, b, owner, st) ==
  LET stats == calculateStats(card, b[boardIdx].element)
      nd    == OccupiedNeighbors(b, boardIdx)
      sames == SelectSeq(nd, LAMBDA n : MyVal(stats, n) = OppVal(b, n))
      sameOn == st.sameEnabled /\ Len(sames) >= 2
      sumOf(n) == MyVal(stats, n) + OppVal(b, n)
      plusSums == {v \in 2 .. 20 : Len(SelectSeq(nd, LAMBDA n : sumOf(n) = v)) >= 2}
      plusOn == st.plusEnabled /\ plusSums # {}
  IN  (IF sameOn THEN 100 ELSE 0) + (IF plusOn THEN 120 ELSE 0)
      + evaluateMoveFlips(boardIdx, card, b, owner, st) * 40 + SumSeq(stats)
      + (IF boardIdx \in {0, 2, 6, 8} THEN 30 ELSE 0)

\* emptyCells, ascending.
RECURSIVE EmptyCellsFrom(_, _)
EmptyCellsFrom(b, i) ==
  IF i \notin DOMAIN b THEN <<>>
  ELSE IF b[i].card = NoCard THEN <<i>> \o EmptyCellsFrom(b, i + 1)
       ELSE EmptyCellsFrom(b, i + 1)

EmptyCells(b) == EmptyCellsFrom(b, 0)

\* The first n elements of a sequence.
Take(s, n) == SubSeq(s, 1, Min(n, Len(s)))
Range(s) == {s[k] : k \in 1 .. Len(s)}

\* The number of leading empty tiles / hand cards a choice is explored over.
Choices(b) ==
  IF round = 1 /\ Cardinality({t \in DOMAIN b : b[t].card # NoCard}) < MaxFreeMoves
  THEN 2 ELSE 1

\* The rotations of the shuffled pool that are explored.
DeckShifts == 0 .. (IF round = 1 THEN MaxDeckShift ELSE 0)

\* getBestMove drawing its tile from every tile of the board
getBestMoveAnyTile(b, hand, st) ==
  {[boardIdx |-> c, handIdx |-> h] : c \in DOMAIN b, h \in 0 .. (Len(hand) - 1)}

\* getBestMove returning the first candidate of the enumeration, unsorted
getBestMoveUnsorted(b, hand, st) ==
  LET emptyCells == EmptyCells(b)
  IN  IF emptyCells = <<>>
      THEN {[boardIdx |-> NoIdx, handIdx |-> h] : h \in 0 .. (Len(hand) - 1)}
      ELSE IF st.cpuDifficulty = "LOW"
      THEN {[boardIdx |-> c, handIdx |-> h] :
              c \in Range(Take(emptyCells, Choices(b))),
              h \in 0 .. (Min(Choices(b), Len(hand)) - 1)}
      ELSE {[boardIdx |-> emptyCells[1], handIdx |-> 0]}

\* getBestMove: the set of results the random draws can produce.  For LOW the
\* draws are explored over the first Choices(b) cells and cards.  With no
\* empty cell, boardIdx is emptyCells[0] of an empty array: undefined (NoIdx).
getBestMove(b, hand, st) ==
  LET emptyCells == EmptyCells(b)
      moves == {[boardIdx |-> c, handIdx |-> h] :
                  c \in Range(emptyCells), h \in 0 .. (Len(hand) - 1)}
      score(m) == evaluateMoveX2(m.boardIdx, CardOf(hand[m.handIdx + 1]), b, "P2", st)
      best == CHOOSE x \in {score(m) : m \in moves} :
                \A m \in moves : score(m) <= x
  IN  IF emptyCells = <<>>
      THEN {[boardIdx |-> NoIdx, handIdx |-> h] : h \in 0 .. (Len(hand) - 1)}
      ELSE IF st.cpuDifficulty = "LOW"
      THEN {[boardIdx |-> c, handIdx |-> h] :
              c \in Range(Take(emptyCells, Choices(b))),
              h \in 0 .. (Min(Choices(b), Len(hand)) - 1)}
      ELSE {m \in moves : score(m) = best}

(***************************************************************************)
(* Deck generation and board set-up (App.tsx 62-70, 443-452)               *)
(***************************************************************************)
Rotate(s, k) == [i \in 1 .. Len(s) |-> s[((i - 1 + k) % Len(s)) + 1]]

\* generateDeck: pool, source, the shuffle, slice(0, 5).  The shuffles explored
\* are the rotations of the source by DeckShifts.
generateDeck(excludeIds) ==
  LET all    == [i \in 1 .. Len(CARD_DATA) |-> CARD_DATA[i].id]
      pool   == SelectSeq(all, LAMBDA id : id \notin excludeIds)
      source == IF Len(pool) >= HandSize THEN pool ELSE all
  IN  {SubSeq(Rotate(source, k), 1, HandSize) : k \in DeckShifts}

\* The element layouts explored for initializeBoard when elementalEnabled:
\* the loop tags two tiles (count = 2).
ElementLayouts ==
  {[t \in Tiles |-> IF t = 0 THEN "Fire" ELSE IF t = 1 THEN "Ice" ELSE NoElement]}

initializeBoard(st) ==
  IF ~st.elementalEnabled
  THEN {[t \in Tiles |-> EmptyTile(NoElement)]}
  ELSE {[t \in Tiles |-> EmptyTile(lay[t])] : lay \in ElementLayouts}

(***************************************************************************)
(* Budgeted deck generation (utils/deckGenerator.ts 12-72)                 *)
(***************************************************************************)
\* The default targetTotal, the value every caller passes
TargetTotal == 30

\* The outcome of an attempt that has to be retried
Retry == <<>>

LevelTotal(deck) == SumSeq([k \in 1 .. Len(deck) |-> CardOf(deck[k]).level])

\* CARDS_DATA.filter(c => !forbiddenIds.has(c.id) && !currentDeckIds.has(c.id))
candidates(forbiddenIds, deck) ==
  SelectSeq([i \in 1 .. Len(CARD_DATA) |-> CARD_DATA[i].id],
            LAMBDA id : id \notin forbiddenIds /\ id \notin Range(deck))

\* The decks the inner loop (i = 0 .. 3) can leave, from iteration i on
RECURSIVE DrawFour(_, _, _)
DrawFour(deck, forbiddenIds, i) ==
  IF i = 4 THEN {deck}
  ELSE LET c == candidates(forbiddenIds, deck)
       IN  IF c = <<>> THEN {deck}
           ELSE UNION {DrawFour(Append(deck, id), forbiddenIds, i + 1) :
                         id \in Range(Take(c, MaxPicks))}

\* The last card drawn by level alone, whatever is forbidden or in the deck
lastCandidatesByLevel(requiredLevel, forbiddenIds, deck) ==
  SelectSeq([i \in 1 .. Len(CARD_DATA) |-> CARD_DATA[i].id],
            LAMBDA id : CardOf(id).level = requiredLevel)

\* CARDS_DATA.filter(c => c.level === requiredLevel && ...)
lastCandidates(requiredLevel, forbiddenIds, deck) ==
  SelectSeq(candidates(forbiddenIds, deck),
            LAMBDA id : CardOf(id).level = requiredLevel)

\* One pass of the attempt loop: the completed decks it can return, and Retry
\* when it can fall through to the next attempt.
Attempt(targetTotal, forbiddenIds) ==
  UNION { IF Len(deck) < 4 THEN {Retry}
          ELSE LET requiredLevel == targetTotal - LevelTotal(deck)
                   last == lastCandidates(requiredLevel, forbiddenIds, deck)
               IN  IF requiredLevel >= 1 /\ requiredLevel <= 10 /\ last # <<>>
                   THEN {Append(deck, id) : id \in Range(Take(last, MaxPicks))}
                   ELSE {Retry}
        : deck \in DrawFour(<<>>, forbiddenIds, 0) }

\* A fallback that yields no deck
generateFallbackDeckNone(targetTotal) == <<>>

\* generateFallbackDeck: CARDS_DATA[0 .. 4]
generateFallbackDeck(targetTotal) == [i \in 1 .. 5 |-> CARD_DATA[i].id]

\* The returns of generateDeck from the given attempt on: the deck, the number
\* of attempts started, and whether the deck is the fallback one.
RECURSIVE generateDeckFrom(_, _, _)
generateDeckFrom(attempt, targetTotal, forbiddenIds) ==
  IF attempt >= MaxAttempts
  THEN {[deck |-> generateFallbackDeck(targetTotal), attempts |-> attempt,
         fallback |-> TRUE]}
  ELSE LET out == Attempt(targetTotal, forbiddenIds)
       IN  {[deck |-> d, attempts |-> attempt + 1, fallback |-> FALSE] :
              d \in out \ {Retry}}
           \cup (IF Retry \in out
                 THEN generateDeckFrom(attempt + 1, targetTotal, forbiddenIds)
                 ELSE {})

\* generateDeck(targetTotal, forbiddenIds) of utils/deckGenerator.ts
generateDeckBudgeted(targetTotal, forbiddenIds) ==
  generateDeckFrom(0, targetTotal, forbiddenIds)

(***************************************************************************)
(* useGame state helpers                                                   *)
(***************************************************************************)
Hand(p) == IF p = "P1" THEN p1Hand ELSE p2Hand

\* prev.filter((_, i) => i !== handIdx), handIdx 0-based
RemoveAt(s, handIdx) ==
  [k \in 1 .. (Len(s) - (IF handIdx < Len(s) THEN 1 ELSE 0)) |->
     IF k <= handIdx THEN s[k] ELSE s[k + 1]]

OccupiedTiles(b) == {t \in DOMAIN b : b[t].card # NoCard}
OwnedTiles(b, p) == {t \in DOMAIN b : b[t].card # NoCard /\ b[t].owner = p}

\* A full-board test that is one tile short
BoardAlmostFull(b) == Cardinality(OccupiedTiles(b)) >= BoardSize - 1

\* board.every(t => t.card)
BoardFull(b) == \A t \in DOMAIN b : b[t].card # NoCard

\* scores with s1 and s2 starting at 0 instead of the hand sizes
ScoresBoardOnly(b, h1, h2) ==
  <<Cardinality(OwnedTiles(b, "P1")), Cardinality(OwnedTiles(b, "P2"))>>

\* scores (App.tsx 599-603)
Scores(b, h1, h2) ==
  <<Len(h1) + Cardinality(OwnedTiles(b, "P1")),
    Len(h2) + Cardinality(OwnedTiles(b, "P2"))>>

scores == Scores(board, p1Hand, p2Hand)

Wins(results, p) == Cardinality({k \in 1 .. Len(results) : results[k].winner = p})

\* The condition of the round-end effect (App.tsx 606).  Effects run when
\* the render that follows a state change commits, before the next event
\* or timer is handled.
RoundEndPending == gameState = "PLAYING" /\ BoardFull(board)

\* The first line of placeCard without its turn test
RejectsOccupiedOnly(b, idx, t, owner) == b[idx].card # NoCard

\* The first line of placeCard (App.tsx 485): the call returns at once.
Rejects(b, idx, t, owner) == b[idx].card # NoCard \/ t # owner

\* setTurn('P2') whoever moved
NextTurnAlwaysP2(owner) == "P2"

\* setTurn(owner === 'P1' ? 'P2' : 'P1') (App.tsx 596)
NextTurn(owner) == IF owner = "P1" THEN "P2" ELSE "P1"

\* What a placeCard call returns: both the early return and the end of the
\* function body return undefined.
PlaceCardReturn(rejected) == "undefined"

\* triggeredSpecial by SAME: sameMatches.length >= 2 (App.tsx 525)
SameTriggers(b, idx, stats, st) ==
  st.sameEnabled /\ Len(SameMatches(b, idx, stats, st)) >= 2

\* plusTriggered: some plusSums entry has two members (App.tsx 536-550)
PlusTriggers(b, idx, stats, st) ==
  st.plusEnabled /\ \E sum \in 2 .. 20 : Len(PlusGroup(b, idx, stats, sum)) >= 2

\* const card = hand[handIdx] is undefined when handIdx is no index of hand,
\* and calculateStats then throws a TypeError on card.stats (App.tsx 487-488, 73).
Faults(hand, handIdx) == handIdx \notin 0 .. (Len(hand) - 1)

\* board[idx] is undefined when idx is no index of the board, and the first
\* line of placeCard then throws a TypeError on board[idx].card (App.tsx 485).
NoTile(b, idx) == idx \notin DOMAIN b

\* The call throws a TypeError.
Throws(b, idx, t, hand, handIdx, owner) ==
  \/ NoTile(b, idx)
  \/ ~Rejects(b, idx, t, owner) /\ Faults(hand, handIdx)

\* The record of the last placeCard call: its tile, whether the tile was
\* occupied and whether its owner argument was not the player to move, both
\* taken on the state before the call, whether hand[handIdx] was no card of
\* the hand of the player to move, whether the CPU timer made the call with
\* the result of getBestMove, the value the call returned (or the error it
\* threw) and, for an accepted call, whether it triggered SAME and PLUS and
\* the tiles whose owner it changed.
Call(idx, hand, handIdx, owner, cpu) ==
  LET throws   == Throws(board, idx, turn, hand, handIdx, owner)
      accepted == ~throws /\ ~Rejects(board, idx, turn, owner)
      stats    == calculateStats(CardOf(hand[handIdx + 1]), board[idx].element)
  IN  [idx       |-> idx,
       occupied  |-> ~NoTile(board, idx) /\ board[idx].card # NoCard,
       outOfTurn |-> turn # owner,
       notInHand |-> \/ Faults(hand, handIdx)
                     \/ ~InSeq(hand[handIdx + 1], Hand(turn)),
       cpu       |-> cpu,
       ret       |-> IF throws THEN "TypeError" ELSE PlaceCardReturn(~accepted),
       same      |-> accepted /\ SameTriggers(board, idx, stats, settings),
       plus      |-> accepted /\ PlusTriggers(board, idx, stats, settings),
       flips     |-> {n \in OccupiedTiles(board) : board'[n].owner # board[n].owner}]

NoCall == [idx |-> NoIdx, occupied |-> FALSE, outOfTurn |-> FALSE, notInHand |-> FALSE,
           cpu |-> FALSE, ret |-> "none", same |-> FALSE, plus |-> FALSE, flips |-> {}]

\* placeCard(idx, hand, handIdx, owner) (App.tsx 484-597), called by the CPU
\* timer (cpu) or by another caller.  A TypeError is thrown before any setter
\* is called, so it leaves the state as it was.
placeCardBy(idx, hand, handIdx, owner, cpu) ==
  /\ IF Throws(board, idx, turn, hand, handIdx, owner) \/ Rejects(board, idx, turn, owner)
     THEN UNCHANGED <<board, p1Hand, p2Hand, selectedCardIdx, turn>>
     ELSE /\ board' = PlaceOnBoard(board, idx, CardOf(hand[handIdx + 1]), owner, settings)
          /\ IF owner = "P1"
             THEN p1Hand' = RemoveAt(p1Hand, handIdx) /\ UNCHANGED p2Hand
             ELSE p2Hand' = RemoveAt(p2Hand, handIdx) /\ UNCHANGED p1Hand
          /\ selectedCardIdx' = NoIdx
          /\ turn' = NextTurn(owner)
  /\ lastCall' = Call(idx, hand, handIdx, owner, cpu)
  /\ UNCHANGED <<gameState, round, matchResults, tossWinner, selectingPlayer, settings>>

placeCard(idx, hand, handIdx, owner) == placeCardBy(idx, hand, handIdx, owner, FALSE)

(***************************************************************************)
(* Initial state (App.tsx 428-441)                                         *)
(***************************************************************************)
Init ==
  /\ gameState = "TITLE"
  /\ round = 1
  /\ matchResults = <<>>
  /\ p1Hand = <<>>
  /\ p2Hand = <<>>
  /\ board = [t \in {} |-> EmptyTile(NoElement)]
  /\ turn = "P1"
  /\ selectedCardIdx = NoIdx
  /\ tossWinner = "none"
  /\ selectingPlayer = "P1"
  /\ settings = [elementalEnabled |-> TRUE, sameEnabled |-> TRUE, plusEnabled |-> TRUE,
                 cpuDifficulty |-> "MID", pvpMode |-> FALSE]
  /\ lastCall = NoCall

(***************************************************************************)
(* Title screen (App.tsx 649-718)                                          *)
(***************************************************************************)
\* The VS CPU / LOCAL PVP buttons.
SetPvpMode(v) ==
  /\ gameState = "TITLE"
  /\ settings' = [settings EXCEPT !.pvpMode = v]
  /\ lastCall' = NoCall
  /\ UNCHANGED <<gameState, round, matchResults, p1Hand, p2Hand, board, turn,
                 selectedCardIdx, tossWinner, selectingPlayer>>

\* The Elem / Same / Plus buttons.
ToggleRule(key) ==
  /\ gameState = "TITLE"
  /\ settings' = [settings EXCEPT ![key] = ~settings[key]]
  /\ lastCall' = NoCall
  /\ UNCHANGED <<gameState, round, matchResults, p1Hand, p2Hand, board, turn,
                 selectedCardIdx, tossWinner, selectingPlayer>>

NextDifficulty(d) ==
  CASE d = "LOW" -> "MID" [] d = "MID" -> "HIGH" [] d = "HIGH" -> "EXPERT" [] OTHER -> "LOW"

\* The CPU difficulty button, shown in CPU mode only.
CycleDifficulty ==
  /\ gameState = "TITLE"
  /\ ~settings.pvpMode
  /\ settings' = [settings EXCEPT !.cpuDifficulty = NextDifficulty(settings.cpuDifficulty)]
  /\ lastCall' = NoCall
  /\ UNCHANGED <<gameState, round, matchResults, p1Hand, p2Hand, board, turn,
                 selectedCardIdx, tossWinner, selectingPlayer>>

\* Start Battle
StartBattle ==
  /\ gameState = "TITLE"
  /\ round' = 1
  /\ matchResults' = <<>>
  /\ gameState' = "DECK_SELECT"
  /\ lastCall' = NoCall
  /\ UNCHANGED <<p1Hand, p2Hand, board, turn, selectedCardIdx, tossWinner,
                 selectingPlayer, settings>>

(***************************************************************************)
(* Deck selection and coin toss (App.tsx 454-477, 720-747)                 *)
(***************************************************************************)
\* A startGame that skips the coin toss
startGameSkipToss ==
  /\ board' \in initializeBoard(settings)
  /\ tossWinner' \in Players
  /\ gameState' = "PLAYING"

\* startGame
startGame ==
  /\ board' \in initializeBoard(settings)
  /\ tossWinner' \in Players
  /\ gameState' = "COIN_TOSS"

\* handleDeckSelect(deck), deck one of the options DeckSelect offers
handleDeckSelect ==
  /\ gameState = "DECK_SELECT"
  /\ LET excludeIds == IF selectingPlayer = "P2" THEN Range(p1Hand) ELSE {}
     IN  \E deck \in generateDeck(excludeIds) :
           IF selectingPlayer = "P1"
           THEN /\ p1Hand' = deck
                /\ IF settings.pvpMode
                   THEN /\ selectingPlayer' = "P2"
                        /\ UNCHANGED <<p2Hand, board, tossWinner, gameState>>
                   ELSE /\ p2Hand' \in generateDeck(Range(deck))
                        /\ startGame
                        /\ UNCHANGED selectingPlayer
           ELSE /\ p2Hand' = deck
                /\ startGame
                /\ UNCHANGED <<p1Hand, selectingPlayer>>
  /\ lastCall' = NoCall
  /\ UNCHANGED <<round, matchResults, turn, selectedCardIdx, settings>>

\* CoinToss onComplete
CoinTossComplete ==
  /\ gameState = "COIN_TOSS"
  /\ tossWinner # "none"
  /\ gameState' = "PLAYING"
  /\ lastCall' = NoCall
  /\ UNCHANGED <<round, matchResults, p1Hand, p2Hand, board, turn, selectedCardIdx,
                 tossWinner, selectingPlayer, settings>>

(***************************************************************************)
(* Playing (App.tsx 631-639, 779-805)                                      *)
(***************************************************************************)
\* The states in which a click on a card of the hand to move is explored.
SelectExplored ==
  \/ settings.pvpMode
  \/ turn = "P1"
  \/ round = 1 /\ Cardinality(OccupiedTiles(board)) <= MaxFreeMoves

\* HandComp card onClick: isTurn && onSelect(i)
SelectCard(i) ==
  /\ gameState = "PLAYING"
  /\ ~RoundEndPending
  /\ i < Len(Hand(turn))
  /\ SelectExplored
  /\ i < Choices(board)
  /\ selectedCardIdx' = i
  /\ lastCall' = NoCall
  /\ UNCHANGED <<gameState, round, matchResults, p1Hand, p2Hand, board, turn,
                 tossWinner, selectingPlayer, settings>>

\* The tiles a board click is explored on.
OccupiedCells(b) == SelectSeq([k \in 1 .. Cardinality(DOMAIN b) |-> k - 1],
                            LAMBDA t : b[t].card # NoCard)

ClickTargets(b) ==
  Range(Take(EmptyCells(b), Choices(b))) \cup Range(Take(OccupiedCells(b), 1))

\* BoardComp onPlace(idx)
BoardClick(idx) ==
  /\ gameState = "PLAYING"
  /\ ~RoundEndPending
  /\ selectedCardIdx # NoIdx
  /\ placeCard(idx, Hand(turn), selectedCardIdx, turn)

\* The CPU effect's timer
CpuMove ==
  /\ ~settings.pvpMode
  /\ gameState = "PLAYING"
  /\ turn = "P2"
  /\ Len(p2Hand) > 0
  /\ ~RoundEndPending
  /\ \E m \in getBestMove(board, p2Hand, settings) :
       placeCardBy(m.boardIdx, p2Hand, m.handIdx, "P2", TRUE)

\* The CPU timer where the round-end effect is itself a timer of 1500 ms
\* (App.tsx 1438-1479): the CPU timer of 1000 ms, set by the same commit, fires
\* while the result of a full board is still to be recorded.
CpuTimer ==
  /\ ~settings.pvpMode
  /\ gameState = "PLAYING"
  /\ turn = "P2"
  /\ Len(p2Hand) > 0
  /\ \E m \in getBestMove(board, p2Hand, settings) :
       placeCardBy(m.boardIdx, p2Hand, m.handIdx, "P2", TRUE)

\* A placeCard call made for the player who is not to move.
OutOfTurnCall(idx, handIdx) ==
  /\ gameState = "PLAYING"
  /\ ~RoundEndPending
  /\ handIdx < Len(Hand(Other(turn)))
  /\ placeCard(idx, Hand(Other(turn)), handIdx, Other(turn))

(***************************************************************************)
(* Round end and series (App.tsx 605-615, 810-829)                         *)
(***************************************************************************)
\* A winner expression that gives a tie to P1
WinnerTieToP1(sc) == IF sc[1] >= sc[2] THEN "P1" ELSE "P2"

\* const winner = scores[0] > scores[1] ? 'P1' : scores[0] < scores[1] ? 'P2' : 'DRAW'
Winner(sc) == IF sc[1] > sc[2] THEN "P1" ELSE IF sc[1] < sc[2] THEN "P2" ELSE "DRAW"

\* A series-end test that stops every series after its second round
SeriesOverAfterTwo(results) == Len(results) >= 2

\* A series-end test that only counts the rounds
SeriesOverAfterThree(results) == Len(results) >= 3

\* results.length >= 3 || P1 wins >= 2 || P2 wins >= 2
SeriesOver(results) ==
  Len(results) >= 3 \/ Wins(results, "P1") >= 2 \/ Wins(results, "P2") >= 2

\* The name the result overlay shows above 'SERIES CHAMPION' (App.tsx 815):
\* the winner of the last result, "DRAW" when that round was drawn.
ChampionShown(results) == results[Len(results)].winner

\* The round-end effect
RoundEndEffect ==
  /\ gameState = "PLAYING"
  /\ BoardFull(board)
  /\ LET results == Append(matchResults, [winner |-> Winner(scores), scores |-> scores])
     IN  /\ matchResults' = results
         /\ gameState' = IF SeriesOver(results) THEN "GAME_OVER" ELSE "ROUND_END"
  /\ lastCall' = NoCall
  /\ UNCHANGED <<round, p1Hand, p2Hand, board, turn, selectedCardIdx, tossWinner,
                 selectingPlayer, settings>>

\* A nextRound that leaves selectingPlayer as it is
nextRoundKeepSelecting ==
  /\ gameState = "ROUND_END"
  /\ round' = round + 1
  /\ gameState' = "DECK_SELECT"
  /\ lastCall' = NoCall
  /\ UNCHANGED <<matchResults, p1Hand, p2Hand, board, turn, selectedCardIdx,
                 tossWinner, selectingPlayer, settings>>

\* The result overlay's button in ROUND_END (nextRound)
nextRound ==
  /\ gameState = "ROUND_END"
  /\ round' = round + 1
  /\ selectingPlayer' = "P1"
  /\ gameState' = "DECK_SELECT"
  /\ lastCall' = NoCall
  /\ UNCHANGED <<matchResults, p1Hand, p2Hand, board, turn, selectedCardIdx,
                 tossWinner, settings>>

\* The result overlay's button in GAME_OVER
ReturnToTitle ==
  /\ gameState = "GAME_OVER"
  /\ round' = 1
  /\ matchResults' = <<>>
  /\ gameState' = "TITLE"
  /\ lastCall' = NoCall
  /\ UNCHANGED <<p1Hand, p2Hand, board, turn, selectedCardIdx, tossWinner,
                 selectingPlayer, settings>>

\* The rule and difficulty buttons of the title screen (ToggleRule,
\* CycleDifficulty) are not pressed in Spec: a series is played with the
\* settings of Init and the chosen mode.
Next ==
  \/ \E v \in BOOLEAN : SetPvpMode(v)
  \/ StartBattle
  \/ handleDeckSelect
  \/ CoinTossComplete
  \/ \E i \in 0 .. (HandSize - 1) : SelectCard(i)
  \/ \E idx \in ClickTargets(board) : BoardClick(idx)
  \/ CpuMove
  \/ \E idx \in ClickTargets(board) : OutOfTurnCall(idx, 0)
  \/ RoundEndEffect
  \/ nextRound
  \/ ReturnToTitle

Spec == Init /\ [][Next]_vars

\* The first round of a series under every configuration of the SAME and PLUS
\* rules: the rule buttons of the title screen are pressed, and the round is
\* played to its result.
RuleKeys == {"sameEnabled", "plusEnabled"}

RuleNext ==
  \/ \E v \in BOOLEAN : SetPvpMode(v)
  \/ \E key \in RuleKeys : ToggleRule(key)
  \/ StartBattle
  \/ handleDeckSelect
  \/ CoinTossComplete
  \/ \E i \in 0 .. (HandSize - 1) : SelectCard(i)
  \/ \E idx \in ClickTargets(board) : BoardClick(idx)
  \/ CpuMove
  \/ RoundEndEffect

RuleSpec == Init /\ [][RuleNext]_vars

\* The first round of a series with placeCard called for the player to move
\* on either hand, with hand indices inside and outside the hand.  The calls
\* are explored during the first MaxFreeMoves + 1 placements.
CallIndices == {0, HandSize}

PlaceCardCall(idx, p, handIdx) ==
  /\ gameState = "PLAYING"
  /\ ~RoundEndPending
  /\ Cardinality(OccupiedTiles(board)) <= MaxFreeMoves
  /\ placeCard(idx, Hand(p), handIdx, turn)

CallNext ==
  \/ \E v \in BOOLEAN : SetPvpMode(v)
  \/ StartBattle
  \/ handleDeckSelect
  \/ CoinTossComplete
  \/ \E i \in 0 .. (HandSize - 1) : SelectCard(i)
  \/ \E idx \in ClickTargets(board) : BoardClick(idx)
  \/ CpuMove
  \/ \E idx \in ClickTargets(board), p \in Players, handIdx \in CallIndices :
       PlaceCardCall(idx, p, handIdx)
  \/ RoundEndEffect

CallSpec == Init /\ [][CallNext]_vars

\* The first round of a series against the CPU at every difficulty, with the
\* CPU and round-end timers of App.tsx 1438-1479.
CpuNext ==
  \/ CycleDifficulty
  \/ StartBattle
  \/ handleDeckSelect
  \/ CoinTossComplete
  \/ \E i \in 0 .. (HandSize - 1) : SelectCard(i)
  \/ \E idx \in ClickTargets(board) : BoardClick(idx)
  \/ CpuTimer
  \/ RoundEndEffect

CpuSpec == Init /\ [][CpuNext]_vars

\* The deck selection of the useGame hook that deals budgeted decks:
\* DeckSelect offers generateDeck(30) options, startGame(selectedDeck) takes
\* the chosen one and generates the CPU's deck with the player's ids forbidden.
startGameWithDeck ==
  /\ gameState = "DECK_SELECT"
  /\ \E option \in generateDeckBudgeted(TargetTotal, {}) :
       \E cpuDeck \in generateDeckBudgeted(TargetTotal, Range(option.deck)) :
         /\ p1Hand' = option.deck
         /\ p2Hand' = cpuDeck.deck
  /\ startGame
  /\ lastCall' = NoCall
  /\ UNCHANGED <<round, matchResults, turn, selectedCardIdx, selectingPlayer,
                 settings>>

GenNext ==
  \/ StartBattle
  \/ startGameWithDeck
  \/ CoinTossComplete

GenSpec == Init /\ [][GenNext]_vars

\* A card can be put on the board: the round is on, a tile is empty and the
\* player to move holds a card.
PlacementPossible ==
  gameState = "PLAYING" /\ ~BoardFull(board) /\ Len(Hand(turn)) > 0

\* A step that puts a card on the board.
PlacementStep ==
  gameState = "PLAYING" /\ OccupiedTiles(board') # OccupiedTiles(board)

\* Fair scheduling: the effects run, the players keep pressing the button on
\* the screen and picking a deck, and while a card can be placed the player to
\* move (human or CPU timer) places one in the end.
FairSpec ==
  /\ Spec
  /\ WF_vars(nextRound)
  /\ WF_vars(handleDeckSelect)
  /\ WF_vars(CoinTossComplete)
  /\ WF_vars(RoundEndEffect)
  /\ ([]<>(~PlacementPossible) \/ []<><<PlacementStep>>_vars)

(***************************************************************************)
(* Properties                                                              *)
(***************************************************************************)
CardsInPlay == Len(p1Hand) + Len(p2Hand) + Cardinality(OccupiedTiles(board))

Illegal(c) == c.occupied \/ c.outOfTurn

\* A step of a round that puts a card on the board.
Placed == gameState = "PLAYING" /\ OccupiedTiles(board') # OccupiedTiles(board)

\* C1: in every state of a round, from the entry into Playing until the
\* round's result is appended, the two hands and the occupied tiles hold
\* ten cards together.
C1_CardConservation == gameState = "PLAYING" => CardsInPlay = 10

\* C2 as stated: in every state of a round the two scores add up to 9.
C2_ScoreSumIsNine == gameState = "PLAYING" => scores[1] + scores[2] = 9

\* C2 amended: in every state of a round the two scores add up to the number
\* of cards in play, the cards of both hands plus the occupied tiles.
C2_ScoreSumIsCardsInPlay == gameState = "PLAYING" => scores[1] + scores[2] = CardsInPlay

\* A round in which P1 has placed two cards and owns three tiles.
C2_Witness ==
  /\ gameState = "PLAYING"
  /\ Len(p1Hand) = HandSize - 2
  /\ Cardinality(OwnedTiles(board, "P1")) = 3
  /\ Cardinality(OwnedTiles(board, "P2")) = 1

\* C3: a placeCard call on an occupied tile, or for a player who is not to
\* move, leaves the board, both hands, the turn and the result list as they
\* were.
C3_RejectedCallChangesNothing ==
  [][Illegal(lastCall') => UNCHANGED <<board, p1Hand, p2Hand, turn, matchResults>>]_vars

\* A call for the player not to move on an empty tile has been made while
\* cards lie on the board.
C3_Witness ==
  /\ lastCall.outOfTurn
  /\ ~lastCall.occupied
  /\ OccupiedTiles(board) # {}
  /\ ~BoardFull(board)

\* C4: a placeCard call on an occupied tile or out of turn returns an
\* IllegalMove outcome, a value an accepted call does not return.
C4_RejectionIsSignalled == Illegal(lastCall) => lastCall.ret = "IllegalMove"

\* C5: a placement puts the card of the player to move on the board and hands
\* the turn to the other player, whatever it captured.
C5_TurnsAlternate ==
  [][Placed => /\ turn' = Other(turn)
               /\ \A t \in OccupiedTiles(board') \ OccupiedTiles(board) :
                    board'[t].owner = turn]_vars

\* P2 has answered P1's first card with a capture and the turn is P1's again.
C5_Witness ==
  /\ gameState = "PLAYING"
  /\ Cardinality(OccupiedTiles(board)) = 2
  /\ Cardinality(OwnedTiles(board, "P2")) = 2
  /\ Len(p2Hand) = HandSize - 1
  /\ turn = "P1"

\* C6: during a round the card and the stored stats of an occupied tile stay
\* as they are, and a newly occupied tile stores the stats computed from its
\* card and the tile's element; only the owner of a placed card changes.
C6_StatsWriteOnce ==
  [][(gameState = "PLAYING" /\ gameState' = "PLAYING") =>
       /\ \A t \in OccupiedTiles(board) :
            /\ board'[t].card = board[t].card
            /\ board'[t].modifiedStats = board[t].modifiedStats
       /\ \A t \in OccupiedTiles(board') \ OccupiedTiles(board) :
            board'[t].modifiedStats = calculateStats(CardOf(board'[t].card), board[t].element)]_vars

\* Two cards lie on element tiles with stats that differ from their base
\* stats, and the second player to move owns both: the first one was captured.
C6_Witness ==
  /\ gameState = "PLAYING"
  /\ Cardinality(OccupiedTiles(board)) = 2
  /\ \E p \in Players : Cardinality(OwnedTiles(board, p)) = 2 /\ Len(Hand(p)) = HandSize - 1
  /\ \A t \in OccupiedTiles(board) :
        board[t].element # NoElement /\ board[t].modifiedStats # CardOf(board[t].card).stats

Appended == Len(matchResults') > Len(matchResults)

\* C7: a round gets exactly one result: the list grows only by one result, on
\* a full board in Playing, the step that follows a full board in Playing
\* appends it, and the list holds one result per round played.
C7_OneResultPerFullBoard ==
  /\ [][Appended => /\ gameState = "PLAYING"
                    /\ Cardinality(OccupiedTiles(board)) = BoardSize
                    /\ Len(matchResults') = Len(matchResults) + 1
                    /\ SubSeq(matchResults', 1, Len(matchResults)) = matchResults]_vars
  /\ [][(gameState = "PLAYING" /\ Cardinality(OccupiedTiles(board)) = BoardSize) => Appended]_vars
  /\ [](gameState = "PLAYING" => Len(matchResults) = round - 1)
  /\ [](gameState \in {"ROUND_END", "GAME_OVER"} => Len(matchResults) = round)

\* The second round of a series has been played and recorded.
C7_Witness ==
  /\ gameState \in {"ROUND_END", "GAME_OVER"}
  /\ Len(matchResults) = 2
  /\ Cardinality(OccupiedTiles(board)) = BoardSize

\* C8: the result appended for a full board holds the two scores of that
\* board and names the player with the higher score, or DRAW on equal
\* scores.
C8_ResultRecordsScoresAndWinner ==
  [][Appended =>
       LET r  == matchResults'[Len(matchResults')]
           s1 == Len(p1Hand) + Cardinality(OwnedTiles(board, "P1"))
           s2 == Len(p2Hand) + Cardinality(OwnedTiles(board, "P2"))
       IN  /\ r.scores = <<s1, s2>>
           /\ r.winner = "P1" <=> s1 > s2
           /\ r.winner = "P2" <=> s1 < s2
           /\ r.winner = "DRAW" <=> s1 = s2]_vars

\* A series holds a drawn round with equal scores and a round a player won.
C8_Witness ==
  /\ \E k \in 1 .. Len(matchResults) :
        matchResults[k].winner = "DRAW" /\ matchResults[k].scores[1] = matchResults[k].scores[2]
  /\ \E k \in 1 .. Len(matchResults) :
        matchResults[k].winner = "P2" /\ matchResults[k].scores[1] < matchResults[k].scores[2]

\* C9: right after a result is appended the series is over exactly when a
\* player has two wins or three results are recorded, and the round has ended
\* otherwise; the list never holds more than three results, and from
\* GAME_OVER the program only goes back to the title screen.
C9_SeriesEnd ==
  /\ [][Appended =>
          IF \/ Wins(matchResults', "P1") >= 2
             \/ Wins(matchResults', "P2") >= 2
             \/ Len(matchResults') = 3
          THEN gameState' = "GAME_OVER"
          ELSE gameState' = "ROUND_END"]_vars
  /\ [](Len(matchResults) <= 3)
  /\ [][gameState = "GAME_OVER" => gameState' \in {"GAME_OVER", "TITLE"}]_vars

\* A series has ended after two rounds won by the same player.
C9_Witness ==
  /\ gameState = "GAME_OVER"
  /\ Len(matchResults) = 2
  /\ \E p \in Players : Wins(matchResults, p) = 2

\* The player with strictly more round wins, "DRAW" when the counts are equal.
ChampionByWins(results) ==
  IF Wins(results, "P1") > Wins(results, "P2") THEN "P1"
  ELSE IF Wins(results, "P2") > Wins(results, "P1") THEN "P2"
  ELSE "DRAW"

\* C10: when the series is over the champion shown is the player with
\* strictly more round wins, and no player is shown when the counts are equal.
C10_ChampionByWinCount ==
  gameState = "GAME_OVER" => ChampionShown(matchResults) = ChampionByWins(matchResults)

\* The winners of the recorded rounds, in order.
Winners(results) == [k \in 1 .. Len(results) |-> results[k].winner]

\* C11 as stated: a series whose round winners are [A, B, A] is over after its
\* second round, so it ends with the round counter at 2.
C11_EndsAfterRoundTwo ==
  \A a \in Players :
    (gameState = "GAME_OVER" /\ Winners(matchResults) = <<a, Other(a), a>>) => round = 2

\* C11 amended: after the winners [A, B] the series is not over and a third
\* round is played; when the winners are [A, B, A] the series is over in
\* round 3 and A is shown as champion.
C11_EndsAfterRoundThree ==
  [][Appended =>
       \A a \in Players :
         /\ Winners(matchResults') = <<a, Other(a)>> => gameState' = "ROUND_END"
         /\ Winners(matchResults') = <<a, Other(a), a>> =>
              /\ gameState' = "GAME_OVER"
              /\ round' = 3
              /\ ChampionShown(matchResults') = a]_vars

\* A series has ended with the winners [A, B, A].
C11_Witness ==
  /\ gameState = "GAME_OVER"
  /\ \E a \in Players : Winners(matchResults) = <<a, Other(a), a>>

\* C12: Playing is entered only from CoinToss, CoinToss only from DeckSelect,
\* RoundEnd and SeriesOver only from Playing with a full board; DeckSelect is
\* left only for CoinToss, CoinToss only for Playing, Playing only for
\* RoundEnd or SeriesOver, RoundEnd only for DeckSelect; DeckSelect is entered
\* from RoundEnd or, at the start of a series, from the title screen.
C12_Transitions ==
  [][gameState' # gameState =>
       /\ gameState' = "PLAYING" => gameState = "COIN_TOSS"
       /\ gameState' = "COIN_TOSS" => gameState = "DECK_SELECT"
       /\ gameState' \in {"ROUND_END", "GAME_OVER"} =>
            gameState = "PLAYING" /\ Cardinality(OccupiedTiles(board)) = BoardSize
       /\ gameState' = "DECK_SELECT" => gameState \in {"ROUND_END", "TITLE"}
       /\ gameState = "DECK_SELECT" => gameState' = "COIN_TOSS"
       /\ gameState = "COIN_TOSS" => gameState' = "PLAYING"
       /\ gameState = "PLAYING" => gameState' \in {"ROUND_END", "GAME_OVER"}
       /\ gameState = "ROUND_END" => gameState' = "DECK_SELECT"]_vars

\* The coin toss of a second round: the loop through RoundEnd and DeckSelect
\* has been taken.
C12_Witness == gameState = "COIN_TOSS" /\ round = 2 /\ Len(matchResults) = 1

C14_FreshCardsEachRound ==
  [][(gameState # "PLAYING" /\ gameState' = "PLAYING") =>
       /\ Len(p1Hand') = HandSize
       /\ Len(p2Hand') = HandSize
       /\ OccupiedTiles(board') = {}]_vars

\* C15: when a round enters Playing the turn is the winner of the coin toss
\* of that round.
C15_TossWinnerMovesFirst ==
  [][(gameState = "COIN_TOSS" /\ gameState' = "PLAYING") => turn' = tossWinner']_vars

\* C16: the step that occupies the ninth tile leaves Playing and appends the
\* result of the round.
C16_RoundEndsInsidePlacement ==
  [][(PlacementStep /\ Cardinality(OccupiedTiles(board')) = BoardSize) =>
       /\ gameState' # "PLAYING"
       /\ Len(matchResults') = Len(matchResults) + 1]_vars

(***************************************************************************)
(* The capture rules                                                       *)
(***************************************************************************)
\* The adjacency of the rules, as <<neighbour, side of the placed card, facing
\* side of the neighbour>> with the sides 1 = Up, 2 = Left, 3 = Right, 4 = Down:
\* Up iff t >= 3, Left iff t % 3 # 0, Right iff t % 3 # 2, Down iff t < 6.
Adjacent(t) ==
  (IF t >= 3 THEN {<<t - 3, 1, 4>>} ELSE {}) \cup
  (IF t % 3 # 0 THEN {<<t - 1, 2, 3>>} ELSE {}) \cup
  (IF t % 3 # 2 THEN {<<t + 1, 3, 2>>} ELSE {}) \cup
  (IF t < 6 THEN {<<t + 3, 4, 1>>} ELSE {})

\* In a placement step: the tile t, the effective stats s of the placed card,
\* the occupied neighbours, and the tiles whose owner changed.  The player p
\* is turn, the player to move before the step.
NewTile == lastCall'.idx
NewStats == board'[NewTile].modifiedStats
Neighbours == {a \in Adjacent(NewTile) : board[a[1]].card # NoCard}
MyValue(a) == NewStats[a[2]]
TheirValue(a) == board[a[1]].modifiedStats[a[3]]
OwnerChanged == {n \in OccupiedTiles(board) : board'[n].owner # board[n].owner}

\* C17: with SAME and PLUS disabled, the tiles whose owner changes in an
\* accepted placement on t by p are exactly the occupied tiles adjacent to t,
\* owned by p's opponent, whose facing value is strictly less than the placed
\* card's value on the side facing them; they become p's, and an equal or
\* greater facing value is never captured.
C17_BasicRule ==
  [][(PlacementStep /\ ~settings.sameEnabled /\ ~settings.plusEnabled) =>
       /\ OwnerChanged = {a[1] : a \in {a \in Neighbours :
                                          /\ board[a[1]].owner # turn
                                          /\ TheirValue(a) < MyValue(a)}}
       /\ \A n \in OwnerChanged : board'[n].owner = turn
       /\ \A a \in Neighbours :
            TheirValue(a) >= MyValue(a) => board'[a[1]].owner = board[a[1]].owner]_vars

\* A placement under the basic rule alone has captured a tile, and a
\* neighbour with an equal facing value is still the opponent's.
C17_Witness ==
  /\ ~settings.sameEnabled /\ ~settings.plusEnabled
  /\ gameState = "PLAYING"
  /\ lastCall.idx # NoIdx
  /\ lastCall.flips # {}
  /\ \E a \in Adjacent(lastCall.idx) :
       /\ board[a[1]].card # NoCard
       /\ board[a[1]].owner # board[lastCall.idx].owner
       /\ board[a[1]].modifiedStats[a[3]] = board[lastCall.idx].modifiedStats[a[2]]

\* The neighbours whose facing value equals the placed card's value on the
\* corresponding side.
Matched == {a \in Neighbours : TheirValue(a) = MyValue(a)}

\* The neighbours whose sum with the placed card's side value is v.
SumGroup(v) == {a \in Neighbours : MyValue(a) + TheirValue(a) = v}

\* Some sum is reached by at least two neighbours.
SharedSum == \E v \in 2 .. 20 : Cardinality(SumGroup(v)) >= 2

\* C18: with SAME enabled and at least two occupied neighbours (of either
\* owner) matching the placed card's value on the corresponding side, every
\* matched neighbour owned by the opponent becomes the placing player's; with
\* fewer than two matches, or SAME disabled, an equal facing value captures
\* nothing: every owner change of the placement is then owed to a strictly
\* lower facing value or to a sum shared under PLUS.
C18_SameRule ==
  [][PlacementStep =>
       IF settings.sameEnabled /\ Cardinality(Matched) >= 2
       THEN \A a \in Matched : board'[a[1]].owner = turn
       ELSE \A a \in Matched :
              \/ board'[a[1]].owner = board[a[1]].owner
              \/ settings.plusEnabled /\ SharedSum]_vars

\* SAME has triggered without PLUS and has captured a tile, and a matched
\* neighbour of the placed card is now the placing player's.
C18_Witness ==
  /\ lastCall.same /\ ~lastCall.plus
  /\ lastCall.flips # {}
  /\ \E a \in Adjacent(lastCall.idx) :
       /\ a[1] \in lastCall.flips
       /\ board[a[1]].modifiedStats[a[3]] = board[lastCall.idx].modifiedStats[a[2]]

\* C19: with PLUS enabled, for every value v reached as (placed card's side
\* value + neighbour's facing value) by at least two occupied neighbours,
\* every opponent-owned neighbour of that group becomes the placing player's,
\* whatever the individual values; a neighbour whose sum no other neighbour
\* shares, or any neighbour when PLUS is disabled, is not captured through
\* PLUS: if its owner changes, its facing value is strictly lower, or SAME
\* has triggered, or (cascade) another sum is shared under PLUS.
C19_PlusRule ==
  [][PlacementStep =>
       \A a \in Neighbours :
         IF settings.plusEnabled /\ Cardinality(SumGroup(MyValue(a) + TheirValue(a))) >= 2
         THEN board'[a[1]].owner = turn
         ELSE board'[a[1]].owner # board[a[1]].owner =>
                \/ TheirValue(a) < MyValue(a)
                \/ settings.sameEnabled /\ Cardinality(Matched) >= 2
                \/ settings.plusEnabled /\ SharedSum]_vars

\* PLUS has triggered without SAME and has captured a neighbour whose facing
\* value is not lower than the placed card's.
C19_Witness ==
  /\ lastCall.plus /\ ~lastCall.same
  /\ \E a \in Adjacent(lastCall.idx) :
       /\ a[1] \in lastCall.flips
       /\ board[a[1]].modifiedStats[a[3]] >= board[lastCall.idx].modifiedStats[a[2]]

\* The state of placeCard when its combo loop is reached, in a placement step.
BeforeCascade ==
  PreCascade(board, NewTile, CardOf(board'[NewTile].card), turn, settings)

\* C20: in one placement SAME and PLUS are evaluated independently (each
\* triggers on its own condition, whatever the other did, and both can
\* trigger); the basic rule then takes only the neighbours that are still the
\* opponent's.  So before the cascade the captured tiles are the opponent's
\* neighbours taken by SAME, by PLUS or by a strictly lower facing value, each
\* captured once, and no other owner has changed.
C20_RulePrecedence ==
  [][PlacementStep =>
       LET flipped  == BeforeCascade.flipped
           sameHit  == settings.sameEnabled /\ Cardinality(Matched) >= 2
           plusHit(a) == /\ settings.plusEnabled
                         /\ Cardinality(SumGroup(MyValue(a) + TheirValue(a))) >= 2
       IN  /\ lastCall'.same = sameHit
           /\ lastCall'.plus = (settings.plusEnabled /\ SharedSum)
           /\ \A i, j \in 1 .. Len(flipped) : flipped[i] = flipped[j] => i = j
           /\ Range(flipped) =
                {a[1] : a \in {a \in Neighbours :
                                 /\ board[a[1]].owner # turn
                                 /\ \/ sameHit /\ a \in Matched
                                    \/ plusHit(a)
                                    \/ TheirValue(a) < MyValue(a)}}
           /\ \A n \in OccupiedTiles(board) :
                BeforeCascade.board[n].owner =
                  IF n \in Range(flipped) THEN turn ELSE board[n].owner]_vars

\* SAME and PLUS have both triggered in one placement, which captured a tile.
C20_Witness ==
  /\ lastCall.same /\ lastCall.plus
  /\ lastCall.flips # {}
  /\ settings.sameEnabled /\ settings.plusEnabled

(***************************************************************************)
(* The cascade                                                             *)
(***************************************************************************)
\* The cards that attack in the cascade of a placement step: the cards seeded
\* by SAME / PLUS and the cards captured in the cascade.
Attackers ==
  Range(BeforeCascade.queue) \cup (OwnerChanged \ Range(BeforeCascade.flipped))

\* C21: every card seeded by SAME / PLUS, and every card captured in the
\* cascade, is the placing player's at the end of the placement and has
\* attacked its neighbours with its stored effective stats: no occupied
\* neighbour of it is still the opponent's with a facing value strictly lower
\* than the attacker's value on that side.
C21_ComboChain ==
  [][PlacementStep =>
       \A c \in Attackers :
         /\ board'[c].owner = turn
         /\ \A a \in Adjacent(c) :
              (board'[a[1]].card # NoCard /\ board'[a[1]].owner # turn) =>
                ~(board'[c].modifiedStats[a[2]] > board'[a[1]].modifiedStats[a[3]])]_vars

\* SAME or PLUS has triggered and the cascade has captured a tile that is not
\* a neighbour of the placed card.
C21_Witness ==
  /\ lastCall.same \/ lastCall.plus
  /\ \E n \in lastCall.flips : \A a \in Adjacent(lastCall.idx) : a[1] # n

\* The state of the combo loop that starts in rs after at most k iterations.
RECURSIVE ComboRun(_, _, _)
ComboRun(rs, owner, k) ==
  IF k = 0 \/ rs.queue = <<>> THEN rs
  ELSE ComboRun(ComboStep(rs, owner), owner, k - 1)

\* What the cascade can still do in rs: the cards waiting on the queue and
\* the cards of the opponent, each of which can be captured and queued once.
ComboFuel(rs, owner) ==
  Len(rs.queue)
  + Cardinality({n \in DOMAIN rs.board :
                   rs.board[n].card # NoCard /\ rs.board[n].owner # owner})

\* C22: in every accepted placement the cascade loop halts: its queue is
\* empty after no more iterations than the seeded cards plus the opponent's
\* cards on the board, the board it leaves is the one placeCard sets, and the
\* turn has advanced to the other player.
C22_ComboTerminates ==
  [][PlacementStep =>
       \A start \in {BeforeCascade} :
         \A final \in {ComboRun(start, turn, ComboFuel(start, turn))} :
           /\ final.queue = <<>>
           /\ final.board = board'
           /\ turn' = Other(turn)]_vars

\* The cascade of the last placement ran: SAME or PLUS triggered and a tile
\* was captured, and the turn has passed to the other player.
C22_Witness ==
  /\ lastCall.same \/ lastCall.plus
  /\ lastCall.idx # NoIdx
  /\ lastCall.flips # {}
  /\ turn # board[lastCall.idx].owner

(***************************************************************************)
(* Elemental adjustment                                                    *)
(***************************************************************************)
\* The effective value of a base value on a tile with tag e for a card with
\* element attr.
Adjusted(base, attr, e) ==
  IF e = NoElement THEN base
  ELSE IF attr = e THEN (IF base + 1 > 10 THEN 10 ELSE base + 1)
  ELSE (IF base - 1 < 1 THEN 1 ELSE base - 1)

\* C23: a card placed on a tagged tile has each effective stat min(10, base + 1)
\* when its element equals the tag and max(1, base - 1) otherwise (cards with
\* no element included); on a tile without a tag the effective stats are the
\* base stats; every effective stat on the board is in 1..10.
C23_ElementalAdjustment ==
  [][PlacementStep =>
       /\ \A k \in 1 .. 4 :
            NewStats[k] = Adjusted(CardOf(board'[NewTile].card).stats[k],
                                   CardOf(board'[NewTile].card).attr,
                                   board[NewTile].element)
       /\ \A t \in OccupiedTiles(board') :
            \A k \in 1 .. 4 : board'[t].modifiedStats[k] \in 1 .. 10]_vars

\* The board holds a card on a tile of its own element with a value held at
\* 10, and a card on a tile of another element with a value lowered by 1.
C23_Witness ==
  /\ \E t \in OccupiedTiles(board) : \E k \in 1 .. 4 :
       /\ board[t].element = CardOf(board[t].card).attr
       /\ CardOf(board[t].card).stats[k] = 10
       /\ board[t].modifiedStats[k] = 10
  /\ \E t \in OccupiedTiles(board) : \E k \in 1 .. 4 :
       /\ board[t].element # NoElement
       /\ board[t].element # CardOf(board[t].card).attr
       /\ board[t].modifiedStats[k] = CardOf(board[t].card).stats[k] - 1

(***************************************************************************)
(* Calls with a card that is not in the mover's hand                       *)
(***************************************************************************)
\* C24: a placeCard call whose card is not a member of the hand of the player
\* to move (a hand index outside the hand, or a hand that is not the mover's)
\* is rejected without raising an error and leaves board, hands and turn
\* unchanged.
C24_CardNotInHandIsRejected ==
  [][lastCall'.notInHand =>
       /\ lastCall'.ret # "TypeError"
       /\ UNCHANGED <<board, p1Hand, p2Hand, turn>>]_vars

(***************************************************************************)
(* The two hands of a round                                                *)
(***************************************************************************)
\* C25: when a round enters Playing the card ids of the two hands are
\* disjoint, and each hand has 5 pairwise distinct ids.
C25_NoDuplicateCards ==
  [][(gameState # "PLAYING" /\ gameState' = "PLAYING") =>
       /\ Range(p1Hand') \cap Range(p2Hand') = {}
       /\ \A p \in Players :
            LET hand == IF p = "P1" THEN p1Hand' ELSE p2Hand'
            IN  Len(hand) = HandSize /\ Cardinality(Range(hand)) = HandSize]_vars

(***************************************************************************)
(* The CPU                                                                 *)
(***************************************************************************)
\* C26: getBestMove is invoked (by the CPU timer, whenever it fires) only in
\* a state where the game is Playing, it is P2's turn, P2's hand is not empty
\* and the board has an empty tile; never on a full board whose result is
\* still to be recorded.
C26_CpuRequestIsGated ==
  [][lastCall'.cpu =>
       /\ gameState = "PLAYING"
       /\ turn = "P2"
       /\ Len(p2Hand) > 0
       /\ ~BoardFull(board)]_vars

\* The CPU is to move: the state in which the CPU timer is set, with an empty
\* tile on the board.
CpuToMove ==
  /\ ~settings.pvpMode
  /\ gameState = "PLAYING"
  /\ turn = "P2"
  /\ Len(p2Hand) > 0
  /\ ~BoardFull(board)

\* C27: at every difficulty, on a board with an empty tile and with a hand
\* that is not empty, every move getBestMove can return is legal: its tile is
\* unoccupied on the given board and its hand index is within 0..|hand|-1, so
\* placeCard accepts it on the CPU's turn.
C27_BestMoveIsLegal ==
  CpuToMove =>
    \A m \in getBestMove(board, p2Hand, settings) :
      /\ m.boardIdx \in Tiles
      /\ board[m.boardIdx].card = NoCard
      /\ m.handIdx \in 0 .. (Len(p2Hand) - 1)
      /\ ~Throws(board, m.boardIdx, turn, p2Hand, m.handIdx, "P2")
      /\ ~Rejects(board, m.boardIdx, turn, "P2")

\* The CPU is to move at difficulty LOW on a board that holds cards of both
\* players, and getBestMove has a move to return.
C27_Witness ==
  /\ CpuToMove
  /\ settings.cpuDifficulty = "LOW"
  /\ OwnedTiles(board, "P1") # {}
  /\ OwnedTiles(board, "P2") # {}
  /\ getBestMove(board, p2Hand, settings) # {}

(***************************************************************************)
(* The combo queue                                                         *)
(***************************************************************************)
\* C29: the cascade processes each tile at most once per placement: no tile
\* index is dequeued from the combo queue more than once, also when a
\* neighbour is matched by SAME and is a member of a triggering PLUS group.
C29_EachTileDequeuedOnce ==
  [][PlacementStep =>
       LET visits == ComboVisits(BeforeCascade, turn)
       IN  \A i, j \in 1 .. Len(visits) : visits[i] = visits[j] => i = j]_vars

\* C30: when a PLUS group triggers, only its opponent-owned members are put
\* on the combo queue: unless SAME has triggered too, every position on the
\* queue when the cascade starts was the opponent's before the placement.
C30_PlusSeedsCapturedOnly ==
  [][(PlacementStep /\ lastCall'.plus /\ ~lastCall'.same) =>
       \A n \in Range(BeforeCascade.queue) : board[n].owner # turn]_vars

\* C28: the budgeted generateDeck(targetTotal, forbiddenIds) always returns:
\* every return is a 5-card deck reached within MaxAttempts attempts (the
\* model's MAX_ATTEMPTS); the fallback deck is returned only after every
\* attempt was used up, and it is the only return when no attempt can meet the
\* level budget.  Checked for the calls the program makes (DeckSelect's, with
\* no forbidden ids; startGame's, with the player's ids forbidden) and on the
\* hands dealt from the returns.
GeneratorInputs ==
  IF gameState = "DECK_SELECT" THEN {{}}
  ELSE IF gameState = "COIN_TOSS" THEN {Range(p1Hand)}
  ELSE {}

C28_BudgetedDeckNeverFails ==
  /\ \A forbiddenIds \in GeneratorInputs :
       LET out == generateDeckBudgeted(TargetTotal, forbiddenIds)
       IN  /\ out # {}
           /\ \A r \in out :
                /\ Len(r.deck) = 5
                /\ Range(r.deck) \subseteq CardIds
                /\ r.attempts <= MaxAttempts
                /\ r.fallback => r.attempts = MaxAttempts
                /\ ~r.fallback => LevelTotal(r.deck) = TargetTotal
           /\ LET passes == Attempt(TargetTotal, forbiddenIds)
              IN  /\ (\E r \in out : r.fallback) => Retry \in passes
                  /\ passes = {Retry} => \A r \in out : r.fallback
  /\ gameState \in {"COIN_TOSS", "PLAYING"} => Len(p1Hand) = 5 /\ Len(p2Hand) = 5

\* The CPU's deck was dealt when no attempt could meet the budget: every
\* return of the generator for the player's ids is the fallback deck.
C28_Witness ==
  /\ gameState = "COIN_TOSS"
  /\ Attempt(TargetTotal, Range(p1Hand)) = {Retry}
  /\ \A r \in generateDeckBudgeted(TargetTotal, Range(p1Hand)) :
       r.fallback /\ r.deck = p2Hand

(***************************************************************************)
(* The basic rule and the cascade                                          *)
(***************************************************************************)
\* C31: a neighbour captured only by the basic rule is not put on the combo
\* queue: every entry of the queue when the combo loop is reached is a
\* neighbour matched under a triggered SAME or in a shared sum under PLUS; so
\* when neither SAME nor PLUS triggers in a placement the queue is empty and
\* every tile that changes owner is adjacent to the placed tile.
C31_BasicCapturesDoNotCascade ==
  [][PlacementStep =>
       \A pre \in {BeforeCascade} :
         /\ \A n \in Range(pre.queue) :
              \E a \in Neighbours :
                /\ a[1] = n
                /\ \/ settings.sameEnabled /\ a \in Matched /\ Cardinality(Matched) >= 2
                   \/ /\ settings.plusEnabled
                      /\ Cardinality(SumGroup(MyValue(a) + TheirValue(a))) >= 2
         /\ (~lastCall'.same /\ ~lastCall'.plus) =>
              /\ pre.queue = <<>>
              /\ OwnerChanged \subseteq {a[1] : a \in Neighbours}]_vars

\* With SAME and PLUS enabled, a placement that triggered neither has
\* captured a neighbour by the basic rule, and that neighbour beats a card of
\* the opponent next to it, which is still the opponent's.
C31_Witness ==
  /\ settings.sameEnabled /\ settings.plusEnabled
  /\ gameState = "PLAYING"
  /\ lastCall.idx # NoIdx
  /\ ~lastCall.same /\ ~lastCall.plus
  /\ \E n \in lastCall.flips :
       \E a \in Adjacent(n) :
         /\ board[a[1]].card # NoCard
         /\ board[a[1]].owner # board[n].owner
         /\ board[n].modifiedStats[a[2]] > board[a[1]].modifiedStats[a[3]]

(***************************************************************************)
(* The CPU's evaluation                                                    *)
(***************************************************************************)
\* C32: for every empty tile and every card of the player to move, the number
\* of captures evaluateMove counts equals the number of distinct tiles that
\* placeCard has captured for that placement when its combo loop is reached
\* (elemental, SAME, PLUS and basic rule, without the cascade).
C32_EvaluatorCountsEngineCaptures ==
  gameState = "PLAYING" =>
    \A c \in Range(EmptyCells(board)) :
      \A id \in Range(Hand(turn)) :
        evaluateMoveFlips(c, CardOf(id), board, turn, settings)
          = Cardinality(Range(PreCascade(board, c, CardOf(id), turn, settings).flipped))

C34_BudgetedDeckIsWellFormed ==
  \A forbiddenIds \in GeneratorInputs :
    \A r \in generateDeckBudgeted(TargetTotal, forbiddenIds) :
      ~r.fallback =>
        /\ Len(r.deck) = 5
        /\ Cardinality(Range(r.deck)) = 5
        /\ Range(r.deck) \cap forbiddenIds = {}
        /\ LevelTotal(r.deck) = TargetTotal

\* The CPU's deck has been dealt by an attempt of the generator that met the
\* budget with the five ids of the player's deck forbidden.
C34_Witness ==
  /\ gameState = "COIN_TOSS"
  /\ Cardinality(Range(p1Hand)) = 5
  /\ \E r \in generateDeckBudgeted(TargetTotal, Range(p1Hand)) :
       ~r.fallback /\ r.deck = p2Hand

\* C35: no deck returned by the budgeted generateDeck, the fallback deck
\* included, holds a card whose id is forbidden, so the hands dealt by
\* startGame share no card id.
C35_ExclusionOnEveryPath ==
  /\ \A forbiddenIds \in GeneratorInputs :
       \A r \in generateDeckBudgeted(TargetTotal, forbiddenIds) :
         Range(r.deck) \cap forbiddenIds = {}
  /\ gameState \in {"COIN_TOSS", "PLAYING"} => Range(p1Hand) \cap Range(p2Hand) = {}

(***************************************************************************)
(* The CPU's turn                                                          *)
(***************************************************************************)
\* C36: in CPU mode every placement made on P2's turn is made by the CPU
\* timer with a move of getBestMove (no card selection and board click of the
\* user places one of P2's cards), and it passes the turn to P1, so P2 places
\* one card per turn.
C36_HumanCannotMoveForCpu ==
  [][(PlacementStep /\ ~settings.pvpMode /\ turn = "P2") =>
       /\ lastCall'.cpu
       /\ \E m \in getBestMove(board, p2Hand, settings) :
            /\ m.boardIdx = NewTile
            /\ p2Hand' = RemoveAt(p2Hand, m.handIdx)
       /\ turn' = "P1"]_vars

(***************************************************************************)
(* Captures and scores                                                     *)
(***************************************************************************)
\* C37: an accepted placement by p puts p's card on the tile and changes the
\* owner of a card only from p's opponent to p; so p's score after the
\* placement is at least p's score before it, and the opponent's score has
\* not increased.
C37_CapturesGoToTheMover ==
  [][PlacementStep =>
       \A before \in {Scores(board, p1Hand, p2Hand)} :
         \A after \in {Scores(board', p1Hand', p2Hand')} :
           LET me == IF turn = "P1" THEN 1 ELSE 2
           IN  /\ board'[NewTile].owner = turn
               /\ \A n \in OwnerChanged :
                    board[n].owner = Other(turn) /\ board'[n].owner = turn
               /\ after[me] >= before[me]
               /\ after[3 - me] <= before[3 - me]]_vars

\* A placement has captured two or more cards, all of them now the mover's,
\* and the mover's score is above what the opponent is left with.
C37_Witness ==
  /\ gameState = "PLAYING"
  /\ lastCall.idx # NoIdx
  /\ Cardinality(lastCall.flips) >= 2
  /\ \A n \in lastCall.flips : board[n].owner = board[lastCall.idx].owner
  /\ LET me == IF board[lastCall.idx].owner = "P1" THEN 1 ELSE 2
     IN  scores[me] > scores[3 - me]

(***************************************************************************)
(* Hands during a round                                                    *)
(***************************************************************************)
\* C38: in every Playing state whose board is not full the player to move
\* holds at least one card; on a full board the player who placed the last
\* card, the one who moved first in the round, holds no card and the other
\* player holds exactly one.
C38_NoStuckRound ==
  gameState = "PLAYING" =>
    IF BoardFull(board)
    THEN Len(Hand(Other(turn))) = 0 /\ Len(Hand(turn)) = 1
    ELSE Len(Hand(turn)) >= 1

(***************************************************************************)
(* Determinism of a placement                                              *)
(***************************************************************************)
\* The state of placeCard when its combo loop is reached, had the PLUS groups
\* been seeded before the SAME matches.
PreCascadePlusFirst(b, idx, card, owner, st) ==
  LET stats == calculateStats(card, b[idx].element)
      rs0   == [board |-> PutCard(b, idx, card, owner), flipped |-> <<>>, queue |-> <<>>]
      rs1   == ApplyPlus(rs0, idx, stats, owner, st)
      rs2   == ApplySame(rs1, idx, stats, owner, st)
  IN  ApplyBasic(rs2, idx, stats, owner)

\* The queue with its k-th entry moved to the front.
Front(q, k) == <<q[k]>> \o SubSeq(q, 1, k - 1) \o SubSeq(q, k + 1, Len(q))

\* The boards the combo loop can leave when every iteration may take any
\* entry of the queue instead of the first.
RECURSIVE ComboAnyOrder(_, _)
ComboAnyOrder(rs, owner) ==
  IF rs.queue = <<>> THEN {rs.board}
  ELSE UNION {ComboAnyOrder(ComboStep([rs EXCEPT !.queue = Front(rs.queue, k)], owner),
                            owner) : k \in 1 .. Len(rs.queue)}

\* C39: the outcome of an accepted placement is a function of the board, the
\* hand, the turn, the rules and the move: seeding PLUS before SAME gives the
\* same board and the same queued tiles before the cascade, every order of
\* processing the combo queue ends in the one board the placement sets, the
\* mover's hand loses the card placed and the turn passes to the other player.
C39_PlacementIsDeterministic ==
  [][PlacementStep =>
       \A pre \in {BeforeCascade} :
         \A alt \in {PreCascadePlusFirst(board, NewTile, CardOf(board'[NewTile].card),
                                         turn, settings)} :
           /\ alt.board = pre.board
           /\ Range(alt.queue) = Range(pre.queue)
           /\ ComboAnyOrder(pre, turn) = {board'}
           /\ ComboAnyOrder(alt, turn) = {board'}
           /\ \E h \in 1 .. Len(Hand(turn)) :
                /\ Hand(turn)[h] = board'[NewTile].card
                /\ IF turn = "P1"
                   THEN p1Hand' = RemoveAt(p1Hand, h - 1) /\ p2Hand' = p2Hand
                   ELSE p2Hand' = RemoveAt(p2Hand, h - 1) /\ p1Hand' = p1Hand
           /\ turn' = Other(turn)]_vars

\* SAME and PLUS have both triggered in a placement whose cascade captured a
\* tile that is not next to the placed card: the queue held several entries.
C39_Witness ==
  /\ lastCall.same /\ lastCall.plus
  /\ lastCall.idx # NoIdx
  /\ \E n \in lastCall.flips : \A a \in Adjacent(lastCall.idx) : a[1] # n

====
